---- MODULE Spec2Model ----
(***************************************************************************)
(* Register-level model of src/display/mod.rs: the display, power,         *)
(* brightness and scan-line-trigger registers of the two graphics engines. *)
(*                                                                         *)
(* A machine word is the set of its set-bit positions: a u32 is a subset   *)
(* of 0..31 and a u16 a subset of 0..15.  The bitwise operators of the     *)
(* source are then set operators, and every shift keeps the word's width.  *)
(***************************************************************************)
EXTENDS Integers, FiniteSets, Sequences

VARIABLES
    POWCNT1,          \* mmio::POWCNT1, u32
    DISPSTAT,         \* mmio::DISPSTAT, u16
    DISPCNT_MAIN,     \* mmio::DISPCNT_MAIN, u32
    DISPCNT_SUB,      \* mmio::DISPCNT_SUB, u32
    BGCNT,            \* the eight background-control registers, by address
    MASTER_BRIGHT,    \* the two master-brightness registers, by address
    debug_assertions, \* cfg(debug_assertions) of the build
    overflow_checks,  \* overflow-checks of the build
    pc,               \* where an interruptible read-modify-write stands
    cur,              \* the read-modify-write in flight
    c,                \* the register value the caller holds
    last,             \* the call that returned last
    prev              \* the call that returned before it

vars == <<POWCNT1, DISPSTAT, DISPCNT_MAIN, DISPCNT_SUB, BGCNT, MASTER_BRIGHT,
          debug_assertions, overflow_checks, pc, cur, c, last, prev>>

(***************************************************************************)
(* Machine words                                                           *)
(***************************************************************************)
\* The bit positions of a word of width w.
Positions(w) == 0 .. (w - 1)

\* The word of a non-negative integer below 2^31.
Bits(n) == {i \in 0 .. 30 : (n \div (2 ^ i)) % 2 = 1}

RECURSIVE Val(_)
\* The integer of a word whose bit 31 is clear.
Val(s) == IF s = {} THEN 0
          ELSE LET i == CHOOSE j \in s : TRUE IN (2 ^ i) + Val(s \ {i})

\* x << n and x >> n on a word of width w.
Shl(x, n, w) == {i + n : i \in x} \cap Positions(w)
Shr(x, n) == {i - n : i \in {j \in x : j >= n}}

\* !x on a word of width w.
Not(x, w) == Positions(w) \ x

\* Bits lo..hi of a word, as an integer.
Field(x, lo, hi) == Val({i - lo : i \in (x \cap (lo .. hi))})

RECURSIVE Sparse(_, _)
\* The words of width w with at most k bits set.
Sparse(w, k) ==
    IF k = 0 THEN {{}}
    ELSE LET S == Sparse(w, k - 1)
         IN  S \cup {s \cup {i} : s \in S, i \in Positions(w)}

\* The words of width w with at most k bits set or at most k bits clear.
Sample(w, k) == Sparse(w, k) \cup {Not(s, w) : s \in Sparse(w, k)}

(***************************************************************************)
(* Bounds of the checked instances                                         *)
(***************************************************************************)
\* Prior values of DISPSTAT: at most StatBits bits set, or clear.
StatBits == 1
\* Scan lines passed to set_vcount_trigger: 0..MaxLine.
MaxLine == 263
\* Brightness levels passed to set_brightness: -MaxBright..MaxBright, and the
\* ends of the i32 range.
MaxBright == 20
\* Colours passed to rgb15: at most RgbBits bits set, or clear.
RgbBits == 2
\* Raw register values converted to bitfield structs: at most RegBits bits set,
\* or all set.
RegBits == 1
\* Background layer indices: 0..MaxBg, and two near the top of the range.
MaxBg == 5
\* Bits of POWCNT1 outside the power and screen bits that vary in the prior
\* value: the first PowOtherBits of OtherBitList.
PowOtherBits == 2

(***************************************************************************)
(* The caller's record of a call: the function, its argument, the value of *)
(* the register it works on before the call, what it returned, the writes  *)
(* it issued (address or register name, value), whether it panicked, and   *)
(* the values an interrupt handler wrote to that register between the      *)
(* call's read and its write.                                              *)
(***************************************************************************)
Call(fn, arg, pre, ret, writes, panicked) ==
    [fn |-> fn, arg |-> arg, pre |-> pre, ret |-> ret, writes |-> writes,
     panicked |-> panicked, handler |-> <<>>]

\* No call has returned yet.
NoCall == Call("none", 0, {}, {}, <<>>, FALSE)

\* A register value the caller holds: its type, the byte array of the bitfield
\* struct, and where it came from (new, from a raw integer, or a getter), the
\* raw integer it was converted from and the fields set since.
Struct(ty, bytes, origin, raw) ==
    [ty |-> ty, bytes |-> bytes, origin |-> origin, raw |-> raw, mutated |-> {}]

\* The caller holds no register value.
NoValue == Struct("none", <<>>, "none", {})

\* A call returns: it becomes the last call, the last one the one before.
Return(call) == last' = call /\ prev' = last

(***************************************************************************)
(* set_vcount_trigger                                                      *)
(***************************************************************************)
\* One more than the highest scan line (the debug_assert's limit).
VCOUNT_LINES == 263

\* vcount_apply with 0x00FF for the mask 0x007F: the old bit 7 is kept.
vcount_apply_mask_ff(x, line) ==
    (x \cap Bits(255)) \cup Shl(Bits(line), 8, 16) \cup (Shr(Bits(line), 1) \cap Bits(128))

\* vcount_apply taking bit 7 of the line, not bit 8, for bit 7 of the register.
vcount_apply_line_bit7(x, line) ==
    (x \cap Bits(127)) \cup Shl(Bits(line), 8, 16) \cup (Bits(line) \cap Bits(128))

\* The closure applied to DISPSTAT: x is the value read, line the argument.
vcount_apply(x, line) ==
    (x \cap Bits(127)) \cup Shl(Bits(line), 8, 16) \cup (Shr(Bits(line), 1) \cap Bits(128))

\* set_vcount_trigger(line) with no interference between the read and the
\* write of DISPSTAT.apply.
set_vcount_trigger(line) ==
    /\ IF debug_assertions /\ ~(line < VCOUNT_LINES)
       THEN /\ DISPSTAT' = DISPSTAT
            /\ Return(Call("set_vcount_trigger", line, DISPSTAT, {}, <<>>, TRUE))
       ELSE /\ DISPSTAT' = vcount_apply(DISPSTAT, line)
            /\ Return(Call("set_vcount_trigger", line, DISPSTAT, {},
                           <<(<<"DISPSTAT", vcount_apply(DISPSTAT, line)>>)>>, FALSE))
    /\ UNCHANGED <<POWCNT1, DISPCNT_MAIN, DISPCNT_SUB, BGCNT, MASTER_BRIGHT,
                   debug_assertions, overflow_checks, pc, cur, c>>

SetVcountTrigger == \E line \in 0 .. MaxLine : set_vcount_trigger(line)

\* One call of set_vcount_trigger from a sampled prior DISPSTAT.
InitVcount ==
    /\ DISPSTAT \in Sample(16, StatBits)
    /\ debug_assertions \in BOOLEAN
    /\ POWCNT1 = {} /\ DISPCNT_MAIN = {} /\ DISPCNT_SUB = {}
    /\ BGCNT = <<>> /\ MASTER_BRIGHT = <<>>
    /\ overflow_checks = FALSE
    /\ pc = "idle" /\ cur = NoCall /\ c = NoValue
    /\ last = NoCall /\ prev = NoCall

NextVcount == last.fn = "none" /\ SetVcountTrigger

SpecVcount == InitVcount /\ [][NextVcount]_vars

\* set_vcount_trigger(line) has returned for a line in 0..262.
VcountDone ==
    /\ last.fn = "set_vcount_trigger"
    /\ last.arg \in 0 .. (VCOUNT_LINES - 1)
    /\ ~last.panicked

\* C1 as stated: after set_vcount_trigger(line), line in 0..262, bits 8-14 of
\* DISPSTAT hold line & 0x7F, bit 7 holds bit 8 of line, and every bit outside
\* positions 7-14 (bits 0-6 and bit 15) is the bit of the prior value.
C1_OnlyBits7To14Replaced ==
    VcountDone =>
        /\ Field(DISPSTAT, 8, 14) = last.arg % 128
        /\ Field(DISPSTAT, 7, 7) = (last.arg \div 256) % 2
        /\ DISPSTAT \ (7 .. 14) = last.pre \ (7 .. 14)

\* C1 amended: after set_vcount_trigger(line), line in 0..262, bits 8-15 of
\* DISPSTAT hold line & 0xFF (bits 8-14 line & 0x7F, bit 15 bit 7 of line), bit
\* 7 holds bit 8 of line, bits 0-6 are those of the prior value, and the call
\* issued the one write of that value.
C1_Bits7To15Replaced ==
    VcountDone =>
        /\ Field(DISPSTAT, 8, 15) = last.arg % 256
        /\ Field(DISPSTAT, 8, 14) = last.arg % 128
        /\ Field(DISPSTAT, 7, 7) = (last.arg \div 256) % 2
        /\ DISPSTAT \cap (0 .. 6) = last.pre \cap (0 .. 6)
        /\ last.writes = <<(<<"DISPSTAT", DISPSTAT>>)>>

\* set_vcount_trigger(262) has cleared a bit 15 that was set and set bit 7.
C1_Witness ==
    /\ VcountDone
    /\ last.arg = 262
    /\ 15 \in last.pre
    /\ 15 \notin DISPSTAT
    /\ 7 \in DISPSTAT
    /\ 0 \in DISPSTAT

\* C2 as stated: set_vcount_trigger(200) leaves bit 7 equal to 1, bits 8-14
\* equal to 72, and bits 0-6 and bit 15 as they were before the call.
C2_Line200SetsBit7 ==
    (VcountDone /\ last.arg = 200) =>
        /\ 7 \in DISPSTAT
        /\ Field(DISPSTAT, 8, 14) = 72
        /\ DISPSTAT \cap (0 .. 6) = last.pre \cap (0 .. 6)
        /\ (15 \in DISPSTAT) = (15 \in last.pre)

\* C2 amended: set_vcount_trigger(200) leaves bit 7 equal to 0 (bit 8 of 200),
\* bits 8-14 equal to 72, bit 15 equal to 1 (bit 7 of 200), and bits 0-6 as they
\* were before the call.
C2_Line200ClearsBit7 ==
    (VcountDone /\ last.arg = 200) =>
        /\ 7 \notin DISPSTAT
        /\ Field(DISPSTAT, 8, 14) = 72
        /\ 15 \in DISPSTAT
        /\ DISPSTAT \cap (0 .. 6) = last.pre \cap (0 .. 6)

\* set_vcount_trigger(200) has run on a register whose bit 7 was set and whose
\* bit 15 was clear.
C2_Witness ==
    /\ VcountDone
    /\ last.arg = 200
    /\ 7 \in last.pre
    /\ 15 \notin last.pre
    /\ 6 \in last.pre
    /\ Field(DISPSTAT, 8, 15) = 200

(***************************************************************************)
(* GfxPwr, MainEnginePos, power_on, power_off, set_engine_lcd              *)
(***************************************************************************)
MAIN_2D == Shl(Bits(1), 1, 32)
SUB_2D == Shl(Bits(1), 9, 32)
RENDER_3D == Shl(Bits(1), 2, 32)
GEOMETRY_3D == Shl(Bits(1), 3, 32)
ALL_2D == MAIN_2D \cup SUB_2D
ALL == ALL_2D \cup RENDER_3D \cup GEOMETRY_3D

\* The named constants of GfxPwr.
GfxPwr == {MAIN_2D, SUB_2D, RENDER_3D, GEOMETRY_3D, ALL_2D, ALL}

TOP == Shl(Bits(1), 15, 32)
BOTTOM == Bits(0)
MainEnginePos == {TOP, BOTTOM}

\* The value power_on(pwrflags) writes to POWCNT1 after reading x.
power_on_value(x, pwrflags) == x \cup pwrflags

\* power_off clearing every bit but the flags (& for & !).
power_off_value_keep_flags(x, pwrflags) == x \cap pwrflags

\* The value power_off(pwrflags) writes to POWCNT1 after reading x.
power_off_value(x, pwrflags) == x \cap Not(pwrflags, 32)

\* set_engine_lcd without the clearing of TOP: BOTTOM changes nothing.
set_engine_lcd_value_no_clear(x, pos) == x \cup pos

\* The value set_engine_lcd(pos) writes to POWCNT1 after reading x.
set_engine_lcd_value(x, pos) == (x \cap Not(TOP, 32)) \cup pos

\* A read-modify-write of POWCNT1 with no interference between the read and
\* the write: the call fn(arg) writes v.
PowcntWrite(fn, arg, v) ==
    /\ POWCNT1' = v
    /\ Return(Call(fn, arg, POWCNT1, {}, <<(<<"POWCNT1", v>>)>>, FALSE))
    /\ UNCHANGED <<DISPSTAT, DISPCNT_MAIN, DISPCNT_SUB, BGCNT, MASTER_BRIGHT,
                   debug_assertions, overflow_checks, pc, cur, c>>

power_on(pwrflags) ==
    PowcntWrite("power_on", pwrflags, power_on_value(POWCNT1, pwrflags))

power_off(pwrflags) ==
    PowcntWrite("power_off", pwrflags, power_off_value(POWCNT1, pwrflags))

set_engine_lcd(pos) ==
    PowcntWrite("set_engine_lcd", pos, set_engine_lcd_value(POWCNT1, pos))

PowerOn == \E pwrflags \in GfxPwr : power_on(pwrflags)
PowerOff == \E pwrflags \in GfxPwr : power_off(pwrflags)
SetEngineLcd == \E pos \in MainEnginePos : set_engine_lcd(pos)

\* The bits power_on and power_off are called with, and the screen bit.
PowerBits == ALL
\* Bits of POWCNT1 that no operation of the module names.
OtherBitList == <<0, 31, 16, 4, 8>>
OtherBits == {OtherBitList[i] : i \in 1 .. PowOtherBits}

\* Prior values of POWCNT1: any power and screen bits, any of OtherBits.
PowcntSample == SUBSET (PowerBits \cup TOP \cup OtherBits)

\* Any sequence of power_on, power_off and set_engine_lcd calls.
InitPow ==
    /\ POWCNT1 \in PowcntSample
    /\ DISPSTAT = {} /\ DISPCNT_MAIN = {} /\ DISPCNT_SUB = {}
    /\ BGCNT = <<>> /\ MASTER_BRIGHT = <<>>
    /\ debug_assertions = FALSE /\ overflow_checks = FALSE
    /\ pc = "idle" /\ cur = NoCall /\ c = NoValue
    /\ last = NoCall /\ prev = NoCall

NextPow == PowerOn \/ PowerOff \/ SetEngineLcd

SpecPow == InitPow /\ [][NextPow]_vars

\* power_off(MAIN_2D) has returned, called right after power_on(MAIN_2D).
OnThenOff ==
    /\ prev.fn = "power_on" /\ prev.arg = MAIN_2D
    /\ last.fn = "power_off" /\ last.arg = MAIN_2D

\* C4 as stated: power_on(MAIN_2D) and then power_off(MAIN_2D) leave POWCNT1
\* equal to its value before power_on, for every prior value.
C4_OnOffRestores == OnThenOff => POWCNT1 = prev.pre

\* C4 amended: power_on(MAIN_2D) and then power_off(MAIN_2D) leave POWCNT1
\* equal to its value before power_on with bit 1 cleared; so it is restored
\* exactly when bit 1 was clear before power_on, and the bit is set in between.
C4_OnOffClearsBit1 ==
    OnThenOff =>
        /\ POWCNT1 = prev.pre \ {1}
        /\ (POWCNT1 = prev.pre) = (1 \notin prev.pre)
        /\ last.pre = prev.pre \cup {1}

\* The round trip has restored a prior value with bit 1 clear and others set.
C4_Witness ==
    /\ OnThenOff
    /\ 1 \notin prev.pre
    /\ {0, 2, 9, 15, 31} \subseteq prev.pre
    /\ POWCNT1 = prev.pre

\* C9: after set_engine_lcd(pos) bit 15 of POWCNT1 is 1 for TOP and 0 for
\* BOTTOM whatever it was, and every other bit is unchanged; after power_on or
\* power_off with a named GfxPwr constant bit 15 is unchanged and the power bits
\* 1, 2, 3, 9 are the prior ones with the flags added or removed.  So along any
\* sequence of calls the power bits follow the power calls only and bit 15 the
\* last set_engine_lcd only.
C9_LcdAndPowerBitsIndependent ==
    /\ last.fn = "set_engine_lcd" =>
            /\ (15 \in POWCNT1) = (last.arg = TOP)
            /\ POWCNT1 \ {15} = last.pre \ {15}
    /\ last.fn = "power_on" =>
            /\ (15 \in POWCNT1) = (15 \in last.pre)
            /\ POWCNT1 \cap {1, 2, 3, 9} = (last.pre \cap {1, 2, 3, 9}) \cup last.arg
    /\ last.fn = "power_off" =>
            /\ (15 \in POWCNT1) = (15 \in last.pre)
            /\ POWCNT1 \cap {1, 2, 3, 9} = (last.pre \cap {1, 2, 3, 9}) \ last.arg
    /\ (last.fn \in {"power_on", "power_off"} /\ prev.fn = "set_engine_lcd") =>
            (15 \in POWCNT1) = (prev.arg = TOP)
    /\ (last.fn = "set_engine_lcd" /\ prev.fn = "power_on") =>
            prev.arg \subseteq POWCNT1
    /\ (last.fn = "set_engine_lcd" /\ prev.fn = "power_off") =>
            prev.arg \cap POWCNT1 = {}

\* set_engine_lcd(BOTTOM) has cleared a set bit 15 after a power_on(ALL), and
\* the power bits and another bit are still set.
C9_Witness ==
    /\ prev.fn = "power_on" /\ prev.arg = ALL
    /\ last.fn = "set_engine_lcd" /\ last.arg = BOTTOM
    /\ 15 \in last.pre
    /\ 15 \notin POWCNT1
    /\ {0, 1, 2, 3, 9} \subseteq POWCNT1

(***************************************************************************)
(* The read-modify-writes, one step per volatile access, with an interrupt *)
(* handler that may write the register between the read and the write      *)
(***************************************************************************)
\* The register a read-modify-write works on.
RmwRegister(fn) == IF fn = "set_vcount_trigger" THEN "DISPSTAT" ELSE "POWCNT1"
RmwWidth(fn) == IF fn = "set_vcount_trigger" THEN 16 ELSE 32

\* The value fn(arg) computes from the value x it read.
RmwValue(fn, arg, x) ==
    CASE fn = "power_on" -> power_on_value(x, arg)
      [] fn = "power_off" -> power_off_value(x, arg)
      [] fn = "set_engine_lcd" -> set_engine_lcd_value(x, arg)
      [] fn = "set_vcount_trigger" -> vcount_apply(x, arg)

\* The write computed from the register's value at the write, as one atomic
\* update would.
rmw_written_atomic(call, now) == RmwValue(call.fn, call.arg, now)

\* What the write step of a call stores: computed from the value the call read;
\* now is the register's value at the time of the write.
rmw_written(call, now) == RmwValue(call.fn, call.arg, call.pre)

\* The calls on POWCNT1, as <<function, argument>>.
PowcntCalls ==
    ({"power_on", "power_off"} \X GfxPwr) \cup ({"set_engine_lcd"} \X MainEnginePos)

\* Scan lines of the interrupted calls.
IrqLines == {0, 127, 128, 200, 262, 263}

\* POWCNT1.read(): the first volatile access of the call.
PowcntRead ==
    /\ pc = "idle"
    /\ \E call \in PowcntCalls :
           cur' = Call(call[1], call[2], POWCNT1, {}, <<>>, FALSE)
    /\ pc' = "read"
    /\ UNCHANGED <<POWCNT1, DISPSTAT, DISPCNT_MAIN, DISPCNT_SUB, BGCNT, MASTER_BRIGHT,
                   debug_assertions, overflow_checks, c, last, prev>>

\* set_vcount_trigger up to the read of DISPSTAT.apply.
vcount_read(line) ==
    /\ pc = "idle"
    /\ IF debug_assertions /\ ~(line < VCOUNT_LINES)
       THEN /\ pc' = "done"
            /\ cur' = cur
            /\ Return(Call("set_vcount_trigger", line, DISPSTAT, {}, <<>>, TRUE))
       ELSE /\ pc' = "read"
            /\ cur' = Call("set_vcount_trigger", line, DISPSTAT, {}, <<>>, FALSE)
            /\ UNCHANGED <<last, prev>>
    /\ UNCHANGED <<POWCNT1, DISPSTAT, DISPCNT_MAIN, DISPCNT_SUB, BGCNT, MASTER_BRIGHT,
                   debug_assertions, overflow_checks, c>>

VcountRead == \E line \in IrqLines : vcount_read(line)

\* The second volatile access of the call: the write, and the return.
RmwWrite ==
    /\ pc = "read"
    /\ LET now == IF RmwRegister(cur.fn) = "POWCNT1" THEN POWCNT1 ELSE DISPSTAT
           v == rmw_written(cur, now)
       IN  /\ IF RmwRegister(cur.fn) = "POWCNT1"
              THEN POWCNT1' = v /\ DISPSTAT' = DISPSTAT
              ELSE DISPSTAT' = v /\ POWCNT1' = POWCNT1
           /\ Return([cur EXCEPT !.writes = <<(<<RmwRegister(cur.fn), v>>)>>])
    /\ pc' = "done"
    /\ cur' = NoCall
    /\ UNCHANGED <<DISPCNT_MAIN, DISPCNT_SUB, BGCNT, MASTER_BRIGHT,
                   debug_assertions, overflow_checks, c>>

\* An interrupt handler runs between the read and the write and writes the
\* same register: the value the call read with one bit changed.
Interrupt ==
    /\ pc = "read"
    /\ \E b \in Positions(RmwWidth(cur.fn)) :
           LET h == IF b \in cur.pre THEN cur.pre \ {b} ELSE cur.pre \cup {b}
           IN  /\ IF RmwRegister(cur.fn) = "POWCNT1"
                  THEN POWCNT1' = h /\ DISPSTAT' = DISPSTAT
                  ELSE DISPSTAT' = h /\ POWCNT1' = POWCNT1
               /\ cur' = [cur EXCEPT !.handler = <<h>>]
    /\ UNCHANGED <<DISPCNT_MAIN, DISPCNT_SUB, BGCNT, MASTER_BRIGHT,
                   debug_assertions, overflow_checks, pc, c, last, prev>>

\* One call, on a sampled prior value of the register it works on.
InitIrq ==
    /\ \/ POWCNT1 \in PowcntSample /\ DISPSTAT = {}
       \/ POWCNT1 = {} /\ DISPSTAT \in Sample(16, StatBits)
    /\ debug_assertions \in BOOLEAN
    /\ DISPCNT_MAIN = {} /\ DISPCNT_SUB = {}
    /\ BGCNT = <<>> /\ MASTER_BRIGHT = <<>>
    /\ overflow_checks = FALSE
    /\ pc = "idle" /\ cur = NoCall /\ c = NoValue
    /\ last = NoCall /\ prev = NoCall

NextIrq == PowcntRead \/ VcountRead \/ RmwWrite \/ Interrupt

SpecIrq == InitIrq /\ [][NextIrq]_vars

\* The current value of the register a call works on.
RegisterOf(fn) == IF RmwRegister(fn) = "POWCNT1" THEN POWCNT1 ELSE DISPSTAT

\* C5: each of power_on, power_off, set_engine_lcd and set_vcount_trigger reads
\* its register in one step and writes it in a later one; between the two the
\* register is as it was read unless an interrupt handler wrote it; and after
\* the write the register holds the value computed from the value read, also
\* when a handler wrote the register in between: the handler's write is lost.
C5_HandlerWriteLost ==
    /\ (pc = "read" /\ cur.handler = <<>>) => RegisterOf(cur.fn) = cur.pre
    /\ (pc = "read" /\ cur.handler # <<>>) => RegisterOf(cur.fn) = cur.handler[1]
    /\ (pc = "done" /\ ~last.panicked) =>
            /\ RegisterOf(last.fn) = RmwValue(last.fn, last.arg, last.pre)
            /\ last.writes = <<(<<RmwRegister(last.fn), RegisterOf(last.fn)>>)>>

\* power_on(MAIN_2D) has written after a handler set bit 15 between its read
\* and its write: bit 15 is clear again, as read.
C5_Witness ==
    /\ pc = "done"
    /\ last.fn = "power_on" /\ last.arg = MAIN_2D
    /\ last.handler # <<>>
    /\ 15 \notin last.pre
    /\ 15 \in last.handler[1]
    /\ 15 \notin POWCNT1
    /\ POWCNT1 # RmwValue(last.fn, last.arg, last.handler[1])

(***************************************************************************)
(* GfxEngine, set_brightness                                               *)
(***************************************************************************)
\* GfxEngine, as the address offset it is cast to.
MAIN == 0
SUB == 4096
GfxEngine == {MAIN, SUB}

\* mmio::MASTER_BRIGHT_MAIN.
MASTER_BRIGHT_MAIN == 67108972

\* The ends of i32.
I32_MAX == 2147483647
I32_MIN == (-I32_MAX) - 1

\* -x on i32 where the build does not check overflow: wrapping.
WrappingNeg(x) == IF x = I32_MIN THEN I32_MIN ELSE -x

\* x as u32, for an i32 x.
AsU32(x) == IF x >= 0 THEN Bits(x) ELSE {31} \cup Bits((x + I32_MAX) + 1)

\* mmio::MASTER_BRIGHT_MAIN | engine as usize.
MasterBrightAddress(engine) == Val(Bits(MASTER_BRIGHT_MAIN) \cup Bits(engine))

\* brightness after the two ifs, where the negation does not overflow or wraps.
ClampedBrightness(brightness) ==
    LET b == IF brightness < 0 THEN WrappingNeg(brightness) ELSE brightness
    IN  IF b > 16 THEN 16 ELSE b

\* mode after the first if.
BrightnessMode(brightness) ==
    IF brightness < 0 THEN Shl(Bits(2), 14, 32) ELSE Shl(Bits(1), 14, 32)

set_brightness(engine, brightness) ==
    /\ IF brightness < 0 /\ brightness = I32_MIN /\ overflow_checks
       THEN \* -brightness panics: attempt to negate with overflow
            /\ MASTER_BRIGHT' = MASTER_BRIGHT
            /\ Return(Call("set_brightness", <<engine, brightness>>,
                           MASTER_BRIGHT[MasterBrightAddress(engine)], {}, <<>>, TRUE))
       ELSE LET a == MasterBrightAddress(engine)
                v == BrightnessMode(brightness) \cup AsU32(ClampedBrightness(brightness))
            IN  /\ MASTER_BRIGHT' = [MASTER_BRIGHT EXCEPT ![a] = v]
                /\ Return(Call("set_brightness", <<engine, brightness>>,
                               MASTER_BRIGHT[a], {}, <<(<<a, v>>)>>, FALSE))
    /\ UNCHANGED <<POWCNT1, DISPSTAT, DISPCNT_MAIN, DISPCNT_SUB, BGCNT,
                   debug_assertions, overflow_checks, pc, cur, c>>

\* The brightness levels tried.
BrightnessInputs ==
    ((-MaxBright) .. MaxBright) \cup {I32_MIN, I32_MIN + 1, I32_MAX - 1, I32_MAX}

SetBrightness ==
    \E engine \in GfxEngine, brightness \in BrightnessInputs :
        set_brightness(engine, brightness)

\* Up to two calls of set_brightness, the registers zero before.
InitBright ==
    /\ MASTER_BRIGHT = [a \in {MasterBrightAddress(e) : e \in GfxEngine} |-> {}]
    /\ overflow_checks \in BOOLEAN
    /\ POWCNT1 = {} /\ DISPSTAT = {} /\ DISPCNT_MAIN = {} /\ DISPCNT_SUB = {}
    /\ BGCNT = <<>>
    /\ debug_assertions = FALSE
    /\ pc = "idle" /\ cur = NoCall /\ c = NoValue
    /\ last = NoCall /\ prev = NoCall

NextBright == prev.fn = "none" /\ SetBrightness

SpecBright == InitBright /\ [][NextBright]_vars

\* |b| capped at 16, in integers.
CappedMagnitude(b) == IF b >= 16 \/ b <= -16 THEN 16 ELSE IF b < 0 THEN -b ELSE b

\* What the claim says the one write of a set_brightness call is.
BrightnessWriteAsClaimed(call) ==
    /\ ~call.panicked
    /\ Len(call.writes) = 1
    /\ call.writes[1][1] = MasterBrightAddress(call.arg[1])
    /\ Field(call.writes[1][2], 14, 15) = (IF call.arg[2] >= 0 THEN 1 ELSE 2)
    /\ call.writes[1][2] \ {14, 15} = Bits(CappedMagnitude(call.arg[2]))

\* C3: for every i32 brightness b, the ends of the range included, and either
\* engine, set_brightness issues exactly one write, to the engine's register,
\* whose bits 14-15 are 1 when b >= 0 and 2 when b < 0 and whose other bits are
\* min(|b|, 16); so 20 writes what 16 writes, -20 what -16 writes, and 0 writes
\* up mode with magnitude 0.
C3_BrightnessClampedForEveryInput ==
    /\ last.fn = "set_brightness" => BrightnessWriteAsClaimed(last)
    /\ (last.fn = "set_brightness" /\ last.arg[2] = 0) =>
            last.writes[1][2] = {14}
    /\ ( /\ last.fn = "set_brightness" /\ prev.fn = "set_brightness"
         /\ <<prev.arg[2], last.arg[2]>> \in {<<16, 20>>, <<-16, -20>>} ) =>
            last.writes[1][2] = prev.writes[1][2]

\* The same statement for every brightness above the least i32: it holds.
BrightnessClampedAboveMin ==
    (last.fn = "set_brightness" /\ last.arg[2] # I32_MIN) =>
        BrightnessWriteAsClaimed(last)

(***************************************************************************)
(* rgb15                                                                   *)
(***************************************************************************)
\* rgb15 with the blue channel masked by 0xFF: its low three bits spill into
\* the green field.
rgb15_blue_unmasked(x) ==
    ( Shr(x \cap Bits(16252928), 19)
      \cup Shr(x \cap Bits(63488), 6)
      \cup Shl(x \cap Bits(255), 7, 32) ) \cap Positions(16)

\* rgb15(x): 0xF80000, 0x00F800 and 0x0000F8 are the masks, as u16 the cut.
rgb15(x) ==
    ( Shr(x \cap Bits(16252928), 19)
      \cup Shr(x \cap Bits(63488), 6)
      \cup Shl(x \cap Bits(248), 7, 32) ) \cap Positions(16)

\* A u32 of four bytes, the least significant first.
FromBytes(b0, b1, b2, b3) ==
    Bits(b0) \cup Shl(Bits(b1), 8, 32) \cup Shl(Bits(b2), 16, 32) \cup Shl(Bits(b3), 24, 32)

\* Channel values at the edges of the five bits kept.
ChannelSample == {0, 7, 8, 129, 248, 255}

\* The colours tried.
RgbInputs ==
    Sample(32, RgbBits)
    \cup {FromBytes(b, g, r, t) : b \in ChannelSample, g \in ChannelSample,
                                  r \in ChannelSample, t \in {0, 255}}

Rgb15 ==
    /\ \E x \in RgbInputs : Return(Call("rgb15", x, {}, rgb15(x), <<>>, FALSE))
    /\ UNCHANGED <<POWCNT1, DISPSTAT, DISPCNT_MAIN, DISPCNT_SUB, BGCNT, MASTER_BRIGHT,
                   debug_assertions, overflow_checks, pc, cur, c>>

\* One call of rgb15.
InitRgb ==
    /\ POWCNT1 = {} /\ DISPSTAT = {} /\ DISPCNT_MAIN = {} /\ DISPCNT_SUB = {}
    /\ BGCNT = <<>> /\ MASTER_BRIGHT = <<>>
    /\ debug_assertions = FALSE /\ overflow_checks = FALSE
    /\ pc = "idle" /\ cur = NoCall /\ c = NoValue
    /\ last = NoCall /\ prev = NoCall

NextRgb == last.fn = "none" /\ Rgb15

SpecRgb == InitRgb /\ [][NextRgb]_vars

\* C10: rgb15(x) is (R >> 3) | ((G >> 3) << 5) | ((B >> 3) << 10) for R, G, B
\* the bits 16-23, 8-15 and 0-7 of x; the top byte of x does not count; bit 15
\* of the result is 0; rgb15(0xFFFFFF) = 0x7FFF, rgb15(0) = 0 and
\* rgb15(0xF80000) = 0x001F.
C10_Rgb15PacksTopFiveBits ==
    last.fn = "rgb15" =>
        LET R == Field(last.arg, 16, 23)
            G == Field(last.arg, 8, 15)
            B == Field(last.arg, 0, 7)
        IN  /\ 15 \notin last.ret
            /\ last.ret \subseteq Positions(16)
            /\ Val(last.ret) = (R \div 8) + ((G \div 8) * 32) + ((B \div 8) * 1024)
            /\ Field(last.ret, 0, 4) = R \div 8
            /\ Field(last.ret, 5, 9) = G \div 8
            /\ Field(last.ret, 10, 14) = B \div 8
            /\ last.arg = Bits(16777215) => Val(last.ret) = 32767
            /\ last.arg = Bits(0) => Val(last.ret) = 0
            /\ last.arg = Bits(16252928) => Val(last.ret) = 31

\* rgb15 has run on a colour whose top byte is set and whose channels each have
\* bits above and below the cut.
C10_Witness ==
    /\ last.fn = "rgb15"
    /\ last.arg = FromBytes(129, 255, 8, 255)
    /\ Val(last.ret) = 1 + (31 * 32) + (16 * 1024)

(***************************************************************************)
(* The #[bitfield] structs: DisplayControlMain, DisplayControlSub and      *)
(* BackgroundControl.  A struct is a byte array; its fields lie from bit 0 *)
(* up in the order declared, a #[skip] field without accessors.            *)
(***************************************************************************)
Fld(name, bits) == [name |-> name, bits |-> bits, skip |-> FALSE]
Skipped(bits) == [name |-> "__", bits |-> bits, skip |-> TRUE]

DisplayControlMain == <<
    Fld("bg_mode", 3), Fld("bg0_3d", 1), Fld("tile_obj_mapping", 1),
    Fld("bm_obj_2d_dim", 1), Fld("bm_obj_mapping", 1), Fld("forced_blank", 1),
    Fld("display_bg0", 1), Fld("display_bg1", 1), Fld("display_bg2", 1),
    Fld("display_bg3", 1), Fld("display_obj", 1), Fld("display_win0", 1),
    Fld("display_win1", 1), Fld("display_obj_win", 1), Fld("display_mode", 2),
    Fld("vram_display_block", 2), Fld("tile_obj_1d_bound", 2),
    Fld("bm_obj_1d_bound", 1), Fld("obj_during_hblank", 1),
    Fld("master_tiledata_base", 3), Fld("master_tilemap_base", 3),
    Fld("bg_ext_pal_enabled", 1), Fld("obj_ext_pal_enabled", 1) >>

DisplayControlSub == <<
    Fld("bg_mode", 3), Skipped(1), Fld("tile_obj_mapping", 1),
    Fld("bm_obj_2d_dim", 1), Fld("bm_obj_mapping", 1), Fld("forced_blank", 1),
    Fld("display_bg0", 1), Fld("display_bg1", 1), Fld("display_bg2", 1),
    Fld("display_bg3", 1), Fld("display_obj", 1), Fld("display_win0", 1),
    Fld("display_win1", 1), Fld("display_obj_win", 1), Fld("display_mode", 2),
    Skipped(2), Fld("tile_obj_1d_bound", 2), Skipped(1),
    Fld("obj_during_hblank", 1), Skipped(6), Fld("bg_ext_pal_enabled", 1),
    Fld("obj_ext_pal_enabled", 1) >>

BackgroundControl == <<
    Fld("priority", 2), Fld("tiledata_base", 4), Fld("mosaic_enabled", 1),
    Fld("palette_setting", 1), Fld("tilemap_base", 5), Fld("bit13", 1),
    Fld("screen_size", 2) >>

StructTypes == {"DisplayControlMain", "DisplayControlSub", "BackgroundControl"}

Layout(ty) ==
    CASE ty = "DisplayControlMain" -> DisplayControlMain
      [] ty = "DisplayControlSub" -> DisplayControlSub
      [] ty = "BackgroundControl" -> BackgroundControl

\* #[repr(u32)], #[repr(u32)], #[repr(u16)].
StorageBits(ty) == IF ty = "BackgroundControl" THEN 16 ELSE 32

RECURSIVE SumBits(_, _)
\* The bits of the first n fields of a layout.
SumBits(layout, n) == IF n = 0 THEN 0 ELSE layout[n].bits + SumBits(layout, n - 1)

\* The first bit of each field of each type: the bits of the fields before it.
FieldOffsets ==
    [ty \in StructTypes |-> [i \in DOMAIN Layout(ty) |-> SumBits(Layout(ty), i - 1)]]

\* The first bit and the bit positions of field i of a type.
FieldOffset(ty, i) == FieldOffsets[ty][i]
FieldRange(ty, i) == FieldOffset(ty, i) .. (FieldOffset(ty, i) + Layout(ty)[i].bits - 1)

\* The bytes of x with the most significant first.
to_be_bytes(x, n) ==
    [k \in 1 .. n |-> {i - 8 * (n - k) : i \in x \cap ((8 * (n - k)) .. (8 * (n - k) + 7))}]

\* The n bytes of x, the least significant first.
to_le_bytes(x, n) ==
    [k \in 1 .. n |-> {i - 8 * (k - 1) : i \in x \cap ((8 * (k - 1)) .. (8 * k - 1))}]

\* The integer of a byte array, the least significant byte first.
from_le_bytes(bytes) ==
    UNION {{i + 8 * (k - 1) : i \in bytes[k]} : k \in DOMAIN bytes}

\* T::new(): every byte zero.
NewStruct(ty) ==
    Struct(ty, [k \in 1 .. (StorageBits(ty) \div 8) |-> {}], "new", {})

\* T::from(x) for the repr integer x.
FromRaw(ty, origin, x) ==
    Struct(ty, to_le_bytes(x, StorageBits(ty) \div 8), origin, x)

\* The bit positions of the #[skip] fields of a type.
SkippedBits(ty) ==
    UNION {FieldRange(ty, i) : i \in {j \in DOMAIN Layout(ty) : Layout(ty)[j].skip}}

\* The conversion to the repr integer with the #[skip] positions forced to 0.
IntoRawSkippedZeroed(s) == from_le_bytes(s.bytes) \ SkippedBits(s.ty)

\* u32::from(s), u16::from(s): the bytes of the struct as they are.
IntoRaw(s) == from_le_bytes(s.bytes)

\* The getter of field i.
GetField(s, i) ==
    Val({j - FieldOffset(s.ty, i) : j \in from_le_bytes(s.bytes) \cap FieldRange(s.ty, i)})

\* The setter of field i, for a value v the field can hold.
SetField(s, i, v) ==
    LET r == FieldRange(s.ty, i)
        x == (from_le_bytes(s.bytes) \ r) \cup {j + FieldOffset(s.ty, i) : j \in Bits(v)}
    IN  [s EXCEPT !.bytes = to_le_bytes(x, StorageBits(s.ty) \div 8),
                  !.mutated = @ \cup {i}]

(***************************************************************************)
(* The register accessors                                                  *)
(***************************************************************************)
\* mmio::BG0CNT_MAIN and mmio::BG0CNT_SUB.
BG0CNT_MAIN == 67108872
BG0CNT_SUB == 67112968

\* The layer clamped to 3 where the source wraps it.
bg_offset_clamped(bg) == (IF bg > 3 THEN 3 ELSE bg) * 2

\* (bg & 0x3) * 2.
bg_offset(bg) == Val(Bits(bg) \cap Bits(3)) * 2

BgAddresses == {base + bg_offset(bg) : base \in {BG0CNT_MAIN, BG0CNT_SUB}, bg \in 0 .. 3}

\* The caller builds a value: T::new(), or T::from(x).
New(ty) ==
    /\ c' = NewStruct(ty)
    /\ UNCHANGED <<POWCNT1, DISPSTAT, DISPCNT_MAIN, DISPCNT_SUB, BGCNT, MASTER_BRIGHT,
                   debug_assertions, overflow_checks, pc, cur, last, prev>>

From(ty, x) ==
    /\ c' = FromRaw(ty, "from", x)
    /\ UNCHANGED <<POWCNT1, DISPSTAT, DISPCNT_MAIN, DISPCNT_SUB, BGCNT, MASTER_BRIGHT,
                   debug_assertions, overflow_checks, pc, cur, last, prev>>

\* The caller sets one field of the value it holds.
WithField ==
    /\ c.ty \in StructTypes
    /\ \E i \in DOMAIN Layout(c.ty) :
           /\ ~Layout(c.ty)[i].skip
           /\ \E v \in 0 .. ((2 ^ Layout(c.ty)[i].bits) - 1) : c' = SetField(c, i, v)
    /\ UNCHANGED <<POWCNT1, DISPSTAT, DISPCNT_MAIN, DISPCNT_SUB, BGCNT, MASTER_BRIGHT,
                   debug_assertions, overflow_checks, pc, cur, last, prev>>

set_main_display_control ==
    /\ c.ty = "DisplayControlMain"
    /\ DISPCNT_MAIN' = IntoRaw(c)
    /\ Return(Call("set_main_display_control", c, DISPCNT_MAIN, {},
                   <<(<<"DISPCNT_MAIN", IntoRaw(c)>>)>>, FALSE))
    /\ c' = NoValue
    /\ UNCHANGED <<POWCNT1, DISPSTAT, DISPCNT_SUB, BGCNT, MASTER_BRIGHT,
                   debug_assertions, overflow_checks, pc, cur>>

get_main_display_control ==
    /\ c' = FromRaw("DisplayControlMain", "get", DISPCNT_MAIN)
    /\ Return(Call("get_main_display_control", 0, DISPCNT_MAIN,
                   FromRaw("DisplayControlMain", "get", DISPCNT_MAIN), <<>>, FALSE))
    /\ UNCHANGED <<POWCNT1, DISPSTAT, DISPCNT_MAIN, DISPCNT_SUB, BGCNT, MASTER_BRIGHT,
                   debug_assertions, overflow_checks, pc, cur>>

set_sub_display_control ==
    /\ c.ty = "DisplayControlSub"
    /\ DISPCNT_SUB' = IntoRaw(c)
    /\ Return(Call("set_sub_display_control", c, DISPCNT_SUB, {},
                   <<(<<"DISPCNT_SUB", IntoRaw(c)>>)>>, FALSE))
    /\ c' = NoValue
    /\ UNCHANGED <<POWCNT1, DISPSTAT, DISPCNT_MAIN, BGCNT, MASTER_BRIGHT,
                   debug_assertions, overflow_checks, pc, cur>>

get_sub_display_control ==
    /\ c' = FromRaw("DisplayControlSub", "get", DISPCNT_SUB)
    /\ Return(Call("get_sub_display_control", 0, DISPCNT_SUB,
                   FromRaw("DisplayControlSub", "get", DISPCNT_SUB), <<>>, FALSE))
    /\ UNCHANGED <<POWCNT1, DISPSTAT, DISPCNT_MAIN, DISPCNT_SUB, BGCNT, MASTER_BRIGHT,
                   debug_assertions, overflow_checks, pc, cur>>

\* The setter of a background-control register: fn is its name, base the
\* engine's BG0CNT.
SetBgControl(fn, base, bg) ==
    /\ c.ty = "BackgroundControl"
    /\ BGCNT' = [BGCNT EXCEPT ![base + bg_offset(bg)] = IntoRaw(c)]
    /\ Return(Call(fn, <<bg, c>>, BGCNT, {},
                   <<(<<base + bg_offset(bg), IntoRaw(c)>>)>>, FALSE))
    /\ c' = NoValue
    /\ UNCHANGED <<POWCNT1, DISPSTAT, DISPCNT_MAIN, DISPCNT_SUB, MASTER_BRIGHT,
                   debug_assertions, overflow_checks, pc, cur>>

\* The getter of a background-control register.
GetBgControl(fn, base, bg) ==
    /\ c' = FromRaw("BackgroundControl", "get", BGCNT[base + bg_offset(bg)])
    /\ Return(Call(fn, <<bg, NoValue>>, BGCNT,
                   FromRaw("BackgroundControl", "get", BGCNT[base + bg_offset(bg)]),
                   <<>>, FALSE))
    /\ UNCHANGED <<POWCNT1, DISPSTAT, DISPCNT_MAIN, DISPCNT_SUB, BGCNT, MASTER_BRIGHT,
                   debug_assertions, overflow_checks, pc, cur>>

set_main_bg_control(bg) == SetBgControl("set_main_bg_control", BG0CNT_MAIN, bg)
get_main_bg_control(bg) == GetBgControl("get_main_bg_control", BG0CNT_MAIN, bg)
set_sub_bg_control(bg) == SetBgControl("set_sub_bg_control", BG0CNT_SUB, bg)
get_sub_bg_control(bg) == GetBgControl("get_sub_bg_control", BG0CNT_SUB, bg)

GetterNames ==
    {"get_main_display_control", "get_sub_display_control",
     "get_main_bg_control", "get_sub_bg_control"}
SetterNames ==
    {"set_main_display_control", "set_sub_display_control",
     "set_main_bg_control", "set_sub_bg_control"}
BgNames ==
    {"set_main_bg_control", "get_main_bg_control",
     "set_sub_bg_control", "get_sub_bg_control"}

\* The struct a setter call was given, and the value it wrote.
StructArg(call) == IF call.fn \in BgNames THEN call.arg[2] ELSE call.arg
Written(call) == call.writes[1][2]

(***************************************************************************)
(* Conversions and display-control accessors: a value is built or read,    *)
(* has at most one field set, and is written.                              *)
(***************************************************************************)
\* The raw register values tried.
RegSample(w) == Sparse(w, RegBits) \cup {Positions(w)}

\* The layer the background-control accessors are called with here.
RegLayer == {5}

\* No register has been given a value.
Untouched ==
    /\ DISPCNT_MAIN = {}
    /\ DISPCNT_SUB = {}
    /\ \A a \in BgAddresses : BGCNT[a] = {}

\* One register, or the background-control registers, hold a sampled value.
InitReg ==
    /\ \E which \in {"DISPCNT_MAIN", "DISPCNT_SUB", "BGCNT"} :
        \E v \in RegSample(IF which = "BGCNT" THEN 16 ELSE 32) :
           /\ DISPCNT_MAIN = (IF which = "DISPCNT_MAIN" THEN v ELSE {})
           /\ DISPCNT_SUB = (IF which = "DISPCNT_SUB" THEN v ELSE {})
           /\ BGCNT = [a \in BgAddresses |-> IF which = "BGCNT" THEN v ELSE {}]
    /\ POWCNT1 = {} /\ DISPSTAT = {} /\ MASTER_BRIGHT = <<>>
    /\ debug_assertions = FALSE /\ overflow_checks = FALSE
    /\ pc = "idle" /\ cur = NoCall /\ c = NoValue
    /\ last = NoCall /\ prev = NoCall

\* The caller starts from a value of its own; the setters overwrite, so the
\* registers are left at zero for it.
BuildNew == c = NoValue /\ last.fn = "none" /\ Untouched /\ \E ty \in StructTypes : New(ty)
BuildFrom ==
    /\ c = NoValue /\ last.fn = "none" /\ Untouched
    /\ \E ty \in StructTypes : \E x \in RegSample(StorageBits(ty)) : From(ty, x)

\* The caller starts from a register's value.
GetMainDisplayControl == c = NoValue /\ last.fn = "none" /\ get_main_display_control
GetSubDisplayControl == c = NoValue /\ last.fn = "none" /\ get_sub_display_control
GetMainBgControl ==
    c = NoValue /\ last.fn = "none" /\ \E bg \in RegLayer : get_main_bg_control(bg)
GetSubBgControl ==
    c = NoValue /\ last.fn = "none" /\ \E bg \in RegLayer : get_sub_bg_control(bg)

\* The caller sets one field.
Mutate == c.mutated = {} /\ WithField

SetMainBgControl == \E bg \in RegLayer : set_main_bg_control(bg)
SetSubBgControl == \E bg \in RegLayer : set_sub_bg_control(bg)

NextReg ==
    \/ BuildNew
    \/ BuildFrom
    \/ GetMainDisplayControl
    \/ GetSubDisplayControl
    \/ GetMainBgControl
    \/ GetSubBgControl
    \/ Mutate
    \/ set_main_display_control
    \/ set_sub_display_control
    \/ SetMainBgControl
    \/ SetSubBgControl

SpecReg == InitReg /\ [][NextReg]_vars

\* The fields of a layout, each starting where the one before it ends, the
\* first at bit 0, fill the storage width exactly.
ContiguousFromBit0(ty) ==
    /\ SumBits(Layout(ty), Len(Layout(ty))) = StorageBits(ty)
    /\ UNION {FieldRange(ty, i) : i \in DOMAIN Layout(ty)} = Positions(StorageBits(ty))
    /\ \A i, j \in DOMAIN Layout(ty) :
           i < j => \A a \in FieldRange(ty, i), b \in FieldRange(ty, j) : a < b
    /\ \A i \in DOMAIN Layout(ty) : Cardinality(FieldRange(ty, i)) = Layout(ty)[i].bits

\* The three layouts are so, and three of their fields lie where the hardware
\* has them: BackgroundControl.tilemap_base at bits 8-12,
\* DisplayControlMain.master_tiledata_base at 24-26 and
\* DisplayControlSub.display_mode at 16-17.
LayoutsContiguous ==
    /\ \A ty \in StructTypes : ContiguousFromBit0(ty)
    /\ FieldRange("BackgroundControl", 5) = 8 .. 12
    /\ FieldRange("DisplayControlMain", 20) = 24 .. 26
    /\ FieldRange("DisplayControlSub", 15) = 16 .. 17

\* C7: the fields of DisplayControlMain, DisplayControlSub (32 bits) and
\* BackgroundControl (16 bits) lie contiguously from bit 0 in declaration
\* order, without overlap, and sum to the storage width; a struct converted
\* from a raw value reads, in every declared field, the raw value's bits at the
\* field's position; and converted back (by a setter) it yields the raw value's
\* bits in every declared field position not set in between.
C7_RawStructRawKeepsFields ==
    /\ LayoutsContiguous
    /\ (c.origin \in {"from", "get"} /\ c.mutated = {}) =>
            \A i \in DOMAIN Layout(c.ty) :
                ~Layout(c.ty)[i].skip =>
                    GetField(c, i) =
                        Val({j - FieldOffset(c.ty, i) : j \in c.raw \cap FieldRange(c.ty, i)})
    /\ (last.fn \in SetterNames /\ StructArg(last).origin \in {"from", "get"}) =>
            LET s == StructArg(last)
            IN  \A i \in DOMAIN Layout(s.ty) :
                    (~Layout(s.ty)[i].skip /\ i \notin s.mutated) =>
                        Written(last) \cap FieldRange(s.ty, i) = s.raw \cap FieldRange(s.ty, i)

\* A DisplayControlMain converted from a raw value with bit 31 alone set has
\* been written back unchanged.
C7_Witness ==
    /\ last.fn = "set_main_display_control"
    /\ last.arg.origin = "from"
    /\ last.arg.mutated = {}
    /\ last.arg.raw = {31}
    /\ DISPCNT_MAIN = {31}

\* The reserved positions of DisplayControlSub.
SubReserved == {3, 18, 19, 22} \cup (24 .. 29)

\* C8 as stated: every value set_sub_display_control writes has zero in the
\* reserved positions of DisplayControlSub (bit 3, bits 18-19, bit 22, bits
\* 24-29), however the caller obtained the value.
C8_ReservedAlwaysZero ==
    last.fn = "set_sub_display_control" => Written(last) \cap SubReserved = {}

\* C8 amended: the value set_sub_display_control writes has, in the reserved
\* positions of DisplayControlSub, zero when the caller built the value with
\* new() and field mutators, and otherwise the bits of the raw integer it was
\* converted from, or of the register value get_sub_display_control read: the
\* conversions pass them through and the mutators do not change them.
C8_ReservedPassThrough ==
    /\ SkippedBits("DisplayControlSub") = SubReserved
    /\ last.fn = "set_sub_display_control" =>
            /\ DISPCNT_SUB = Written(last)
            /\ Written(last) \cap SubReserved = last.arg.raw \cap SubReserved
            /\ last.arg.origin = "new" => Written(last) \cap SubReserved = {}
            /\ last.arg.origin = "get" => last.arg.raw = prev.pre

\* set_sub_display_control has written a value read from a register with the
\* reserved bit 3 set, after one field of it was set: bit 3 is written as 1.
C8_Witness ==
    /\ last.fn = "set_sub_display_control"
    /\ prev.fn = "get_sub_display_control"
    /\ last.arg.origin = "get"
    /\ last.arg.mutated = {6}
    /\ prev.pre = {3}
    /\ DISPCNT_SUB = {3, 7}

(***************************************************************************)
(* Background-control accessors: up to two calls on any layer index        *)
(***************************************************************************)
\* The layer indices tried.
BgIndices == (0 .. MaxBg) \cup {I32_MAX - 4, I32_MAX}

\* The BackgroundControl values written.
BgValues == {Bits(1), Bits(33029), Positions(16)}

InitBg ==
    /\ BGCNT = [a \in BgAddresses |-> {}]
    /\ POWCNT1 = {} /\ DISPSTAT = {} /\ DISPCNT_MAIN = {} /\ DISPCNT_SUB = {}
    /\ MASTER_BRIGHT = <<>>
    /\ debug_assertions = FALSE /\ overflow_checks = FALSE
    /\ pc = "idle" /\ cur = NoCall /\ c = NoValue
    /\ last = NoCall /\ prev = NoCall

\* The caller makes up to two calls, each on any of the indices, and builds
\* the values it passes.
BuildBg ==
    prev.fn = "none" /\ c = NoValue /\ \E x \in BgValues : From("BackgroundControl", x)
SetMainBgLayer == prev.fn = "none" /\ \E bg \in BgIndices : set_main_bg_control(bg)
GetMainBgLayer == prev.fn = "none" /\ \E bg \in BgIndices : get_main_bg_control(bg)
SetSubBgLayer == prev.fn = "none" /\ \E bg \in BgIndices : set_sub_bg_control(bg)
GetSubBgLayer == prev.fn = "none" /\ \E bg \in BgIndices : get_sub_bg_control(bg)

NextBg == BuildBg \/ SetMainBgLayer \/ GetMainBgLayer \/ SetSubBgLayer \/ GetSubBgLayer

SpecBg == InitBg /\ [][NextBg]_vars

\* The engine's base address and the address the claim gives for a layer.
BgBase(fn) ==
    IF fn \in {"set_main_bg_control", "get_main_bg_control"} THEN BG0CNT_MAIN ELSE BG0CNT_SUB
ClaimedBgAddress(call) == BgBase(call.fn) + 2 * (call.arg[1] % 4)

\* C6: for every layer index i the background-control setter and getter of an
\* engine access base + 2 * (i mod 4) and nothing else; so i and i + 4 address
\* the same register (4 aliases 0), a value written with index i + 4 is what
\* the getter returns for i, and the indices 0..3 of the two engines address
\* eight distinct registers.
C6_BgIndexWrapsModulo4 ==
    /\ Cardinality(BgAddresses) = 8
    /\ last.fn \in {"set_main_bg_control", "set_sub_bg_control"} =>
            /\ last.writes = <<(<<ClaimedBgAddress(last), last.arg[2].raw>>)>>
            /\ BGCNT = [last.pre EXCEPT ![ClaimedBgAddress(last)] = last.arg[2].raw]
    /\ last.fn \in {"get_main_bg_control", "get_sub_bg_control"} =>
            /\ BGCNT = last.pre
            /\ last.writes = <<>>
            /\ IntoRaw(last.ret) = BGCNT[ClaimedBgAddress(last)]
    /\ ( /\ <<prev.fn, last.fn>> \in {<<"set_main_bg_control", "get_main_bg_control">>,
                                       <<"set_sub_bg_control", "get_sub_bg_control">>}
         /\ prev.arg[1] - 4 = last.arg[1] ) =>
            IntoRaw(last.ret) = prev.arg[2].raw
    /\ ( /\ prev.fn \in {"set_main_bg_control", "set_sub_bg_control"}
         /\ last.fn \in {"get_main_bg_control", "get_sub_bg_control"}
         /\ prev.arg[1] \in 0 .. 3 /\ last.arg[1] \in 0 .. 3
         /\ <<BgBase(prev.fn), prev.arg[1]>> # <<BgBase(last.fn), last.arg[1]>> ) =>
            IntoRaw(last.ret) = {}

\* get_main_bg_control(0) has returned what set_main_bg_control(4, c) wrote.
C6_Witness ==
    /\ prev.fn = "set_main_bg_control" /\ prev.arg[1] = 4
    /\ last.fn = "get_main_bg_control" /\ last.arg[1] = 0
    /\ IntoRaw(last.ret) = Positions(16)
    /\ BGCNT[BG0CNT_MAIN] = Positions(16)
====
